---- MODULE Spec2Model ----
(***************************************************************************)
(* Model of the extraction pipeline and resilience layer of halatio-tundra *)
(*   app/services/resilience.py            CircuitBreaker                   *)
(*   app/services/connectors/duckdb_base.py  DuckDBBaseConnector            *)
(*   app/services/connectors/postgres_adbc.py PostgresADBCConnector         *)
(*   app/services/connectors/factory.py    ConnectorFactory                 *)
(*                                                                         *)
(*   app/main.py                           the conversion endpoints         *)
(*   app/services/supabase_client.py       the bookkeeping store            *)
(*   app/services/secret_manager.py        SecretManagerService             *)
(*   app/services/schema_inference.py      SchemaInferenceService           *)
(*                                                                         *)
(* Specifications:                                                         *)
(*   SpecBreaker  concurrent callers of CircuitBreaker.call_async          *)
(*   Spec         one extract_to_parquet call at a time, with the retry    *)
(*                decorator, the deadline, the breaker and the worker      *)
(*                thread that runs _extract_sync                           *)
(*   SpecNames    one extract_to_parquet call over every short table name  *)
(*   SpecConvert  concurrent requests to the conversion endpoints          *)
(*   SpecServices the connector factory and test_connection                *)
(*   SpecSecrets  the secret cache of get_secret_payload and               *)
(*                delete_credentials                                       *)
(*   SpecUri      one connection URI built from bounded credentials        *)
(*   SpecFormat   one call of _detect_string_format                        *)
(*   SpecSample   one call of infer_schema                                 *)
(*   SpecTrip     one call of should_trip_breaker                          *)
(***************************************************************************)
EXTENDS Integers, Sequences, FiniteSets, TLC

\* ------------------------------------------------------------------ bounds
\* Number of concurrent callers of one breaker (SpecBreaker).
NumCallers == 2
\* The monotonic clock runs from 0 to MaxTime (one unit = 10 seconds).
MaxTime == 2
\* Longest table_name the caller passes, in characters.
MaxLen == 2

\* ------------------------------------------------------- program constants
\* EXTERNAL_DEP_BREAKER_FAILURE_THRESHOLD, default 3.
FailureThreshold == 3
\* EXTERNAL_DEP_BREAKER_RECOVERY_TIMEOUT_SECONDS, default 20.0 = 2 units.
RecoveryTimeout == 2
\* stop_after_attempt(5)
MaxAttempts == 5

\* Python's None and Optional values: None is the empty tuple, a present
\* value x is the 1-tuple <<x>>.
None == << >>
Some(x) == << x >>
Get(o) == o[1]

\* ================================================================ breaker
CLOSED == "closed"
OPEN == "open"
HALF_OPEN == "half_open"

\* CircuitBreaker.__init__
NewBreaker == [state |-> CLOSED, failure_count |-> 0, opened_at |-> None]

\* CircuitBreaker._transition_to
TransitionTo(b, next_state) ==
    IF b.state = next_state THEN b ELSE [b EXCEPT !.state = next_state]

\* CircuitBreaker._can_attempt_call at clock value t: the admission decision
\* and the breaker after it.  An OPEN breaker without opened_at fails the
\* assertion.
CanAttemptCall(b, t) ==
    IF b.state # OPEN
    THEN [admit |-> TRUE, assertion |-> TRUE, b |-> b]
    ELSE IF b.opened_at = None
    THEN [admit |-> FALSE, assertion |-> FALSE, b |-> b]
    ELSE IF (t - Get(b.opened_at)) >= RecoveryTimeout
    THEN [admit |-> TRUE, assertion |-> TRUE, b |-> TransitionTo(b, HALF_OPEN)]
    ELSE [admit |-> FALSE, assertion |-> TRUE, b |-> b]

\* Mutant of RecordSuccess: the count and opened_at are reset, the state is
\* left as it is.
RecordSuccessKeepsState(b) ==
    [b EXCEPT !.failure_count = 0, !.opened_at = None]

\* CircuitBreaker._record_success
RecordSuccess(b) ==
    TransitionTo([b EXCEPT !.failure_count = 0, !.opened_at = None], CLOSED)

\* CircuitBreaker._record_failure at clock value t
RecordFailure(b, t) ==
    LET b1 == [b EXCEPT !.failure_count = b.failure_count + 1]
    IN  IF b.state = HALF_OPEN \/ b1.failure_count >= FailureThreshold
        THEN TransitionTo([b1 EXCEPT !.opened_at = Some(t)], OPEN)
        ELSE b1

\* ------------------------------------------------------------- exceptions
\* The exceptions that occur in the pipeline, by class name.
\*   ValueError               raised by _validate_identifier / missing args
\*   ConnectionRefused        driver error "connection refused"
\*   InvalidInput             engine error whose message contains "invalid"
\*   TimeoutError             asyncio.timeout expired
\*   CancelledError           the awaiting task was cancelled (BaseException)
\*   CircuitBreakerOpenError  the breaker rejected the call
\*   AssertionError           the assertion of _can_attempt_call failed
\*   TypeError                a call with keyword arguments the callee lacks
\*   StoreError               the Supabase client failed to execute a call
\*   SecretNotFound           Secret Manager: "404 Secret ... not found"
\*   AttributeError           a method looked up on an object that lacks it
\*   ValidationError          utils.ValidationError (a TundraException, 400)
Exceptions ==
    {"ValueError", "ConnectionRefused", "InvalidInput", "TimeoutError",
     "CancelledError", "CircuitBreakerOpenError", "AssertionError",
     "TypeError", "StoreError", "SecretNotFound", "AttributeError",
     "ImportError",
     "ValidationError"}

\* isinstance(exc, Exception): CancelledError derives from BaseException only.
IsException(e) == e # "CancelledError"

\* The keywords that str(exc).lower() contains, among those that
\* is_non_retryable_error and classify_error look for.
MessageTokens(e) ==
    CASE e = "InvalidInput" -> {"invalid"}
      [] e = "ConnectionRefused" -> {"connection", "refused"}
      [] e = "SecretNotFound" -> {"not found"}
      [] OTHER -> {}

\* getattr(exc, "status_code", None): none of the pipeline's exceptions has one.
StatusCode(e) == None

NonRetryableTokens == {"validation", "invalid", "not found", "bad request"}

\* is_non_retryable_error on an exception given by its class, its
\* status_code attribute (None when it has none) and the keywords its text
\* contains.
IsNonRetryable(x) ==
    \/ x.class \in {"ValueError", "ValidationError"}
    \/ (x.status_code # None /\ Get(x.status_code) >= 400 /\ Get(x.status_code) < 500)
    \/ x.tokens \cap NonRetryableTokens # {}

\* is_non_retryable_error on one of the pipeline's exceptions
IsNonRetryableError(e) ==
    IsNonRetryable([class |-> e, status_code |-> StatusCode(e),
                    tokens |-> MessageTokens(e)])

\* should_trip_breaker
ShouldTripBreaker(e) == ~IsNonRetryableError(e)

\* Mutant of RecordRaised: every caught exception counts as a failure.
RecordRaisedCountsAll(b, e, t) ==
    IF ~IsException(e) THEN b ELSE RecordFailure(b, t)

\* The except-branch of call / call_async: the breaker after fn raised e.
\* Only subclasses of Exception are caught.
RecordRaised(b, e, t) ==
    IF ~IsException(e) THEN b
    ELSE IF ShouldTripBreaker(e) THEN RecordFailure(b, t)
    ELSE RecordSuccess(b)

\* =============================================================== state
VARIABLES
    breaker,   \* the external_dependency_breaker: state, failure_count, opened_at
    now,       \* time.monotonic()
    \* ---- concurrent callers of the breaker (SpecBreaker)
    cpc,       \* caller -> "idle" | "inflight"
    cfn,       \* caller -> outcome of the awaited fn(): "none" | "ok" | exception
    cres,      \* caller -> what its last call returned or raised
    trial,     \* the caller whose admission moved OPEN -> HALF_OPEN and is
               \* still in flight, 0 if none (history variable)
    tripAt,    \* when the breaker last opened on reaching the threshold
               \* (history variable)
    \* ---- one extract_to_parquet call (Spec)
    pc,        \* "idle" | "running" (awaiting the worker) | "backoff" | "done"
    conn,      \* the connector variant the factory returned
    query,     \* argument query: None or Some(text)
    table_name,\* argument table_name: None or Some(characters)
    attempt,   \* attempt number of the retry decorator, 0 before the call
    sql,       \* the query text of the current attempt, None if none was built
    wpc,       \* the worker thread of the current attempt
    wout,      \* what _extract_sync returned or raised
    lastExc,   \* the exception that ended the latest failed attempt
    final,     \* what extract_to_parquet returned or raised to its caller
    handle,    \* the engine handle of the current attempt's worker:
               \* "none" | "open" | "closed"
    owpc,      \* the worker thread abandoned last by a timeout or a
               \* cancellation and still running _extract_sync: its position,
               \* "none" when there is none
    ocause,    \* what abandoned it: "TimeoutError" | "CancelledError" | "none"
    ohandle,   \* the engine handle of the abandoned worker
    late,      \* what a worker abandoned by the deadline did after the
               \* TimeoutError was raised: "none" | "step" | "write"
               \* (history variable)
    admissionChecked, \* the breaker's admission check ran in this attempt
    outcomeRecorded,  \* the attempt's outcome was recorded in the breaker
    execs,     \* how often this call started _extract_sync (history variable)
    refusedOnly, \* every connection attempt of this call was refused so far
               \* (history variable)
    \* ---- the conversion endpoints and the bookkeeping store (SpecConvert)
    sources,   \* table sources: the row of the one source, current_version
               \* and extraction_query
    versions,  \* table source_versions: request -> the row it created, or None
    hpc,       \* request -> "idle" | "extracting" | "ended"
    hreq,      \* request -> its endpoint and body
    hsrc,      \* request -> the source row get_source returned, or None
    hconn,     \* request -> the connector class create_connector returned
    hout,      \* request -> what extract_to_parquet returned or raised
    hresp,     \* request -> what the endpoint returned or raised
    hlog,      \* request -> the writes the store applied for it, in order
               \* (history variable)
    storeFailed, \* request -> some store call of it raised (history variable)
    adbcImportable, \* `import adbc_driver_postgresql` succeeds at present
    \* ---- direct calls of the factory and test_connection (SpecServices)
    created,   \* the direct create_connector calls so far, in order: the
               \* type asked for, whether the driver was importable, and the
               \* class returned (history variable)
    tpc,       \* test_connection: "idle" | "awaiting" | "done"
    tconn,     \* the connector class whose test_connection runs
    twpc,      \* its probe thread: "none" | "start" | "connected" | "finished"
    tout,      \* what the probe function returned or raised
    tres,      \* what test_connection returned or raised
    \* ---- the secret cache (SpecSecrets)
    cache,     \* SecretManagerService._cache: key -> None or the entry
    vault,     \* Secret Manager: key -> None or the payload stored
    sres,      \* the latest get_secret_payload call and how it ended
    \* ---- calls of the pure functions (SpecUri, SpecFormat)
    ucall,     \* the latest connection string built: who built it, from
               \* which username and password
    uri,       \* the connection string, as characters
    dsample,   \* the sample passed to _detect_string_format: None, or how
               \* many of its values are of each kind
    dformat,   \* what _detect_string_format returned: None or the format
    ncall,     \* the infer_schema call: None, or the sample_size passed and
               \* the number of rows of the file
    nsampled,  \* the number of rows its view sample_data holds
    xerr,      \* the exception passed to should_trip_breaker, or None
    xtrip      \* what should_trip_breaker returned

cvars == <<cpc, cfn, cres, trial, tripAt>>
ovars == <<owpc, ocause, ohandle, late>>
evars == <<pc, conn, query, table_name, attempt, sql, wpc, wout, lastExc, final,
           handle, ovars, admissionChecked, outcomeRecorded, execs, refusedOnly>>
corevars == <<breaker, now, cvars, evars>>
hvars == <<sources, versions, hpc, hreq, hsrc, hconn, hout, hresp, hlog,
           storeFailed>>
pvars == <<tpc, tconn, twpc, tout, tres>>
kvars == <<cache, vault, sres>>
fvars == <<ucall, uri, dsample, dformat, ncall, nsampled, xerr, xtrip>>
svars == <<created, pvars, kvars, fvars>>
appvars == <<hvars, adbcImportable, svars>>
vars == <<corevars, appvars>>

\* Some abandoned worker thread is still running _extract_sync.
orphaned == owpc # "none"

\* ========================================================== SpecBreaker
\* Concurrent callers of one CircuitBreaker through call_async.  A caller is
\* idle or in flight (admitted, awaiting fn()); fn's outcome is produced by
\* the awaited operation and handled when the caller's coroutine resumes.
Callers == 1..NumCallers

\* What the wrapped function can raise.
FnErrors == {"ConnectionRefused", "InvalidInput", "ValueError"}

\* History: the opening instant after a _record_failure that reached the
\* threshold.
TripAtAfter(b, b2, old) ==
    IF b2.state = OPEN /\ b2.failure_count >= FailureThreshold
       /\ b2.failure_count # b.failure_count
    THEN b2.opened_at ELSE old

\* call_async up to `await fn()`: the admission check.
BeginCall(c) ==
    /\ cpc[c] = "idle"
    /\ LET r == CanAttemptCall(breaker, now)
       IN  /\ breaker' = r.b
           /\ IF ~r.assertion
              THEN /\ cres' = [cres EXCEPT ![c] = "AssertionError"]
                   /\ UNCHANGED <<cpc, trial>>
              ELSE IF ~r.admit
              THEN /\ cres' = [cres EXCEPT ![c] = "CircuitBreakerOpenError"]
                   /\ UNCHANGED <<cpc, trial>>
              ELSE /\ cpc' = [cpc EXCEPT ![c] = "inflight"]
                   /\ cres' = [cres EXCEPT ![c] = "none"]
                   /\ trial' = IF breaker.state = OPEN THEN c ELSE trial
    /\ cfn' = [cfn EXCEPT ![c] = "none"]
    /\ UNCHANGED <<now, tripAt, evars, appvars>>

\* The awaited fn() completes normally.
FnReturns(c) ==
    /\ cpc[c] = "inflight" /\ cfn[c] = "none"
    /\ cfn' = [cfn EXCEPT ![c] = "ok"]
    /\ UNCHANGED <<breaker, now, cpc, cres, trial, tripAt, evars, appvars>>

\* The awaited fn() raises.
FnRaises(c) ==
    /\ cpc[c] = "inflight" /\ cfn[c] = "none"
    /\ \E e \in FnErrors : cfn' = [cfn EXCEPT ![c] = e]
    /\ UNCHANGED <<breaker, now, cpc, cres, trial, tripAt, evars, appvars>>

\* call_async after `await fn()`: record the outcome, return or re-raise.
EndCall(c) ==
    /\ cpc[c] = "inflight" /\ cfn[c] # "none"
    /\ LET b2 == IF cfn[c] = "ok" THEN RecordSuccess(breaker)
                 ELSE RecordRaised(breaker, cfn[c], now)
       IN  /\ breaker' = b2
           /\ tripAt' = TripAtAfter(breaker, b2, tripAt)
    /\ cres' = [cres EXCEPT ![c] = cfn[c]]
    /\ cpc' = [cpc EXCEPT ![c] = "idle"]
    /\ trial' = IF trial = c THEN 0 ELSE trial
    /\ UNCHANGED <<now, cfn, evars, appvars>>

\* The awaiting task is cancelled while fn() is pending: CancelledError is no
\* Exception, so it leaves call_async without any outcome being recorded.
CancelCall(c) ==
    /\ cpc[c] = "inflight" /\ cfn[c] = "none"
    /\ breaker' = RecordRaised(breaker, "CancelledError", now)
    /\ cres' = [cres EXCEPT ![c] = "CancelledError"]
    /\ cpc' = [cpc EXCEPT ![c] = "idle"]
    /\ trial' = IF trial = c THEN 0 ELSE trial
    /\ UNCHANGED <<now, cfn, tripAt, evars, appvars>>

\* The monotonic clock advances.
Tick ==
    /\ now < MaxTime
    /\ now' = now + 1
    /\ UNCHANGED <<breaker, cvars, evars, appvars>>

\* ========================================================= connectors
\* The connector classes ConnectorFactory.create_connector can return:
\* postgresql/redshift resolve to the ADBC connector when the driver imports
\* and to the DuckDB postgres scanner otherwise; mysql/mariadb and sqlite have
\* one class each.
Variants == {"PostgresADBC", "PostgresDuckDB", "MySQLDuckDB", "SQLiteDuckDB"}

\* _get_db_alias of each class
GetDbAlias(v) ==
    CASE v = "PostgresADBC" -> "pg"
      [] v = "PostgresDuckDB" -> "pg"
      [] v = "MySQLDuckDB" -> "mysql"
      [] v = "SQLiteDuckDB" -> "sqlite"

\* Only PostgresADBCConnector.extract_to_parquet goes through the breaker.
UsesBreaker(v) == v = "PostgresADBC"

\* ------------------------------------------------------------ identifiers
\* Characters a table_name is made of; a text is a tuple of characters.
Letters == {"a"}
Digits == {"1"}
Alphabet == Letters \cup Digits \cup {"_", ".", "'", ";", " ", "\n"}

\* The character class [a-zA-Z0-9_\.]
SafeChars == Letters \cup Digits \cup {"_", "."}

\* All texts of at most n characters.
RECURSIVE Texts(_)
Texts(n) ==
    IF n = 0 THEN {<< >>}
    ELSE LET shorter == Texts(n - 1)
         IN  shorter \cup {Append(t, ch) : t \in shorter, ch \in Alphabet}

\* _SAFE_IDENTIFIER.match(name) for ^[a-zA-Z0-9_\.]+$ : without re.MULTILINE
\* the $ matches at the end of the text and also just before a line break
\* that is the last character.
SafeIdentifierMatch(name) ==
    LET n == Len(name)
        body == IF n >= 2 /\ name[n] = "\n" THEN SubSeq(name, 1, n - 1) ELSE name
    IN  /\ Len(body) >= 1
        /\ \A i \in 1..Len(body) : body[i] \in SafeChars

\* Python truthiness of an Optional[str]
Truthy(o) == o # None /\ Len(Get(o)) > 0

\* Mutant of BuildQuery: no connector qualifies the table with its alias.
BuildQueryNoAlias(v, name) == <<"SELECT * FROM ">> \o name

\* The query text built from a table name.
BuildQuery(v, name) ==
    IF v = "PostgresADBC"
    THEN <<"SELECT * FROM ">> \o name
    ELSE <<"SELECT * FROM ", GetDbAlias(v), ".">> \o name

\* Mutant of ResolveQuery: the branch that raises for missing arguments is
\* left out and the call goes on with the query it was given.
ResolveQueryUnchecked(v, q, t) ==
    IF q = None /\ Truthy(t)
    THEN IF SafeIdentifierMatch(Get(t))
         THEN [ok |-> TRUE, sql |-> Some(BuildQuery(v, Get(t)))]
         ELSE [ok |-> FALSE, sql |-> None]
    ELSE [ok |-> TRUE, sql |-> q]

\* The head of extract_to_parquet: the query text to run, or the ValueError.
ResolveQuery(v, q, t) ==
    IF q = None /\ Truthy(t)
    THEN IF SafeIdentifierMatch(Get(t))
         THEN [ok |-> TRUE, sql |-> Some(BuildQuery(v, Get(t)))]
         ELSE [ok |-> FALSE, sql |-> None]
    ELSE IF q = None
    THEN [ok |-> FALSE, sql |-> None]
    ELSE [ok |-> TRUE, sql |-> q]

\* ------------------------------------------------------------------ retry
\* @retry(stop=stop_after_attempt(5), wait=..., reraise=True): the default
\* retry condition retries on every Exception; stop once n attempts were made.
\* Mutant of StopAfterAttempt: stops one attempt late.
StopAfterAttemptLate(n) == n >= MaxAttempts + 1

StopAfterAttempt(n) == n >= MaxAttempts
ShouldRetry(e, n) == IsException(e) /\ ~StopAfterAttempt(n)

\* Outcomes: nothing yet, a result dict, or an exception.
NoOutcome == [kind |-> "none", exc |-> "none", rows |-> 0]
Returned(rows) == [kind |-> "ok", exc |-> "none", rows |-> rows]
Raised(e) == [kind |-> "exc", exc |-> e, rows |-> 0]

\* Row counts the source can report.
RowCounts == {0, 1}

\* Raw queries a caller passes.
RawQueries == {<<"SELECT 1">>}

\* The arguments (query, table_name) of a call with a table name among
\* names: a table name or none without a query, and a query with or without
\* a table name.
CallArgs(names) ==
    {[query |-> None, table_name |-> None]}
    \cup {[query |-> None, table_name |-> Some(t)] : t \in names}
    \cup {[query |-> Some(q), table_name |-> None] : q \in RawQueries}
    \cup {[query |-> Some(q), table_name |-> Some(<<";">>)] : q \in RawQueries}

\* The table names of the calls in Spec: empty, allowed, with a semicolon,
\* with a final line break.  SpecNames draws from Texts(MaxLen).
SampleNames == {<< >>, <<"a">>, <<"a", ";">>, <<"a", "\n">>}

\* ================================================================= Spec
\* One extract_to_parquet call at a time on a connector the factory returned.
\* The coroutine runs without interruption between two awaits; the worker
\* thread that runs _extract_sync takes its steps on its own.

\* The retry decorator after an attempt (number n) raised e: sleep and go
\* round again, or re-raise e to the caller.
EndAttempt(e, n) ==
    /\ lastExc' = e
    /\ IF ShouldRetry(e, n)
       THEN pc' = "backoff" /\ final' = NoOutcome
       ELSE pc' = "done" /\ final' = Raised(e)

\* Hand _extract_sync to a worker thread and await it.
Dispatch(ex, le) ==
    /\ pc' = "running"
    /\ wpc' = "start"
    /\ execs' = ex + 1
    /\ lastExc' = le
    /\ final' = NoOutcome

\* The body of extract_to_parquet up to its first await, as attempt n of a
\* call with connector v and arguments q, t; ex and le are execs and lastExc
\* so far.
BeginAttempt(v, q, t, n, ex, le) ==
    LET rq == ResolveQuery(v, q, t)
        adm == CanAttemptCall(breaker, now)
    IN  /\ sql' = rq.sql
        /\ wout' = NoOutcome
        /\ handle' = "none"
        /\ outcomeRecorded' = FALSE
        /\ IF ~rq.ok
           THEN /\ EndAttempt("ValueError", n)
                /\ wpc' = "none" /\ execs' = ex
                /\ admissionChecked' = FALSE
                /\ breaker' = breaker
           ELSE IF UsesBreaker(v)
           THEN /\ admissionChecked' = TRUE
                /\ breaker' = adm.b
                /\ IF ~adm.assertion
                   THEN EndAttempt("AssertionError", n) /\ wpc' = "none" /\ execs' = ex
                   ELSE IF ~adm.admit
                   THEN EndAttempt("CircuitBreakerOpenError", n) /\ wpc' = "none" /\ execs' = ex
                   ELSE Dispatch(ex, le)
           ELSE /\ admissionChecked' = FALSE
                /\ breaker' = breaker
                /\ Dispatch(ex, le)

\* A caller invokes connector.extract_to_parquet(query=..., table_name=...).
Call(v, a) ==
    /\ pc \in {"idle", "done"}
    /\ conn' = v
    /\ query' = a.query
    /\ table_name' = a.table_name
    /\ attempt' = 1
    /\ refusedOnly' = TRUE
    /\ late' = "none"
    /\ BeginAttempt(v, a.query, a.table_name, 1, 0, "none")
    /\ UNCHANGED <<now, owpc, ocause, ohandle, cvars, appvars>>

\* The backoff sleep ends and the decorator makes the next attempt.
Retry ==
    /\ pc = "backoff"
    /\ attempt' = attempt + 1
    /\ BeginAttempt(conn, query, table_name, attempt + 1, execs, lastExc)
    /\ UNCHANGED <<now, conn, query, table_name, refusedOnly, ovars, cvars, appvars>>

\* The steps of _extract_sync.  The engine handle is open while the worker
\* is at "attach", "count" or "copy"; every exit closes it (finally).
HandleOpen(w) == w \in {"attach", "count", "copy"}

\* duckdb.connect(":memory:", ...): a new handle, local to this run of
\* _extract_sync.
Connect(h) == "open"

\* Mutant of ExitSync: the handle is closed on the normal return only.
ExitSyncNoFinally(h, o) == IF h = "open" /\ o.kind = "ok" THEN "closed" ELSE h

\* The handle when _extract_sync exits with outcome o: `finally: conn.close()`
\* closes a handle that was opened, whatever the outcome.
ExitSync(h, o) == IF h = "open" THEN "closed" ELSE h

\* DuckDBBaseConnector._extract_sync: duckdb.connect and the SET statements.
WorkerConnect ==
    /\ pc = "running" /\ wpc = "start" /\ conn # "PostgresADBC"
    /\ wpc' = "attach"
    /\ handle' = Connect(handle)
    /\ UNCHANGED <<breaker, now, cvars, pc, conn, query, table_name, attempt, sql,
                   wout, lastExc, final, ovars, admissionChecked,
                   outcomeRecorded, execs, refusedOnly, appvars>>

\* PostgresADBCConnector._extract_sync, step 1: connect through ADBC, run the
\* query and fetch the Arrow table; then duckdb.connect.
WorkerFetch ==
    /\ pc = "running" /\ wpc = "start" /\ conn = "PostgresADBC"
    /\ \/ /\ wpc' = "copy" /\ wout' = wout /\ refusedOnly' = FALSE
          /\ handle' = Connect(handle)
       \/ \E e \in {"ConnectionRefused", "InvalidInput"} :
            /\ wpc' = "finished" /\ wout' = Raised(e)
            /\ refusedOnly' = (refusedOnly /\ e = "ConnectionRefused")
            /\ handle' = ExitSync(handle, Raised(e))
    /\ UNCHANGED <<breaker, now, cvars, pc, conn, query, table_name, attempt, sql,
                   lastExc, final, ovars, admissionChecked, outcomeRecorded, execs, appvars>>

\* DuckDBBaseConnector._extract_sync: self._attach_database(conn)
WorkerAttach ==
    /\ pc = "running" /\ wpc = "attach"
    /\ \/ wpc' = "count" /\ wout' = wout /\ refusedOnly' = FALSE
          /\ handle' = handle
       \/ wpc' = "finished" /\ wout' = Raised("ConnectionRefused")
          /\ refusedOnly' = refusedOnly
          /\ handle' = ExitSync(handle, Raised("ConnectionRefused"))
    /\ UNCHANGED <<breaker, now, cvars, pc, conn, query, table_name, attempt, sql,
                   lastExc, final, ovars, admissionChecked, outcomeRecorded, execs, appvars>>

\* DuckDBBaseConnector._extract_sync: the row count and the column count
WorkerCount ==
    /\ pc = "running" /\ wpc = "count"
    /\ \/ wpc' = "copy" /\ wout' = wout /\ handle' = handle
       \/ \E e \in {"ConnectionRefused", "InvalidInput"} :
            /\ wpc' = "finished" /\ wout' = Raised(e)
            /\ handle' = ExitSync(handle, Raised(e))
    /\ UNCHANGED <<breaker, now, cvars, pc, conn, query, table_name, attempt, sql,
                   lastExc, final, ovars, admissionChecked, outcomeRecorded,
                   execs, refusedOnly, appvars>>

\* _extract_sync: COPY ... TO output_path, close the handle, return the dict
WorkerCopy ==
    /\ pc = "running" /\ wpc = "copy"
    /\ \E o \in {Returned(n) : n \in RowCounts} \cup {Raised("ConnectionRefused")} :
         /\ wpc' = "finished" /\ wout' = o
         /\ handle' = ExitSync(handle, o)
    /\ UNCHANGED <<breaker, now, cvars, pc, conn, query, table_name, attempt, sql,
                   lastExc, final, ovars, admissionChecked, outcomeRecorded,
                   execs, refusedOnly, appvars>>

\* The coroutine resumes with the worker's outcome: call_async records it
\* (ADBC connector only), then extract_to_parquet returns or raises into the
\* retry decorator.
Resume ==
    /\ pc = "running" /\ wpc = "finished"
    /\ breaker' = IF ~UsesBreaker(conn) THEN breaker
                  ELSE IF wout.kind = "ok" THEN RecordSuccess(breaker)
                  ELSE RecordRaised(breaker, wout.exc, now)
    /\ outcomeRecorded' = UsesBreaker(conn)
    /\ IF wout.kind = "ok"
       THEN pc' = "done" /\ final' = wout /\ lastExc' = lastExc
       ELSE EndAttempt(wout.exc, attempt)
    /\ UNCHANGED <<now, cvars, conn, query, table_name, attempt, sql, wpc, wout,
                   handle, ovars, admissionChecked, execs, refusedOnly, appvars>>

\* anyio.to_thread.run_sync(..., cancellable=True) when the awaiting task is
\* cancelled with exception e: the await ends at once and the thread is left
\* to run on its own, with its handle.  The model follows the worker
\* abandoned last.  An ADBC worker that has not fetched yet is at "fetch".
Abandon(e) ==
    /\ owpc' = IF wpc = "start" /\ conn = "PostgresADBC" THEN "fetch" ELSE wpc
    /\ ocause' = e
    /\ ohandle' = handle
    /\ handle' = "none"
    /\ wpc' = "none"

\* asyncio.timeout(_EXTRACTION_TIMEOUT_SECONDS) expires while the worker is
\* awaited: the await is cancelled (the thread is abandoned, cancellable=True),
\* CancelledError passes through call_async, the context manager turns it
\* into TimeoutError, which reaches the retry decorator.
Timeout ==
    /\ pc = "running" /\ wpc # "finished"
    /\ Abandon("TimeoutError")
    /\ breaker' = IF UsesBreaker(conn)
                  THEN RecordRaised(breaker, "CancelledError", now) ELSE breaker
    /\ EndAttempt("TimeoutError", attempt)
    /\ refusedOnly' = FALSE
    /\ UNCHANGED <<now, cvars, conn, query, table_name, attempt, sql, wout,
                   late, admissionChecked, outcomeRecorded, execs, appvars>>

\* The caller's task is cancelled while it awaits the worker or sleeps in the
\* backoff: CancelledError is not retried.
CancelRequest ==
    /\ \/ pc = "running" /\ wpc # "finished"
          /\ Abandon("CancelledError")
       \/ pc = "backoff" /\ UNCHANGED <<owpc, ocause, ohandle, handle, wpc>>
    /\ breaker' = IF UsesBreaker(conn) /\ pc = "running"
                  THEN RecordRaised(breaker, "CancelledError", now) ELSE breaker
    /\ EndAttempt("CancelledError", attempt)
    /\ refusedOnly' = FALSE
    /\ UNCHANGED <<now, cvars, conn, query, table_name, attempt, sql, wout,
                   late, admissionChecked, outcomeRecorded, execs, appvars>>

\* What the abandoned worker has done after a deadline's TimeoutError, once
\* it has taken one more engine step (wrote: the step was a completed COPY).
LateAfter(cause, l, wrote) ==
    IF cause # "TimeoutError" THEN l
    ELSE IF wrote THEN "write"
    ELSE IF l = "none" THEN "step" ELSE l

\* The abandoned worker takes a step of _extract_sync that does not end it:
\* connect, fetch, attach, count.
OrphanStep ==
    /\ owpc \in {"start", "fetch", "attach", "count"}
    /\ owpc' = CASE owpc = "start" -> "attach"
                 [] owpc = "fetch" -> "copy"
                 [] owpc = "attach" -> "count"
                 [] owpc = "count" -> "copy"
    /\ ohandle' = IF owpc \in {"start", "fetch"} THEN Connect(ohandle) ELSE ohandle
    /\ late' = LateAfter(ocause, late, FALSE)
    /\ UNCHANGED <<breaker, now, cvars, pc, conn, query, table_name, attempt, sql,
                   wpc, wout, lastExc, final, handle, ocause, admissionChecked,
                   outcomeRecorded, execs, refusedOnly, appvars>>

\* The abandoned worker runs the step of _extract_sync that ends it: a step
\* that raises, or the COPY that writes output_path; the handle is closed and
\* the thread's result is dropped.
OrphanFinish ==
    /\ owpc \in {"fetch", "attach", "count", "copy"}
    /\ \E o \in {Raised("ConnectionRefused")}
                 \cup (IF owpc = "copy" THEN {Returned(n) : n \in RowCounts} ELSE {}) :
         /\ ohandle' = ExitSync(ohandle, o)
         /\ late' = LateAfter(ocause, late, o.kind = "ok")
    /\ owpc' = "none"
    /\ ocause' = "none"
    /\ UNCHANGED <<breaker, now, cvars, pc, conn, query, table_name, attempt, sql,
                   wpc, wout, lastExc, final, handle, admissionChecked,
                   outcomeRecorded, execs, refusedOnly, appvars>>

\* ======================================================== SpecConvert
\* The endpoints convert_file and convert_database_data with the bookkeeping
\* store (Supabase) and the connector factory.  The store functions contain
\* no await of their own, so a request runs without interruption up to
\* `await connector.extract_to_parquet(...)` and again from the end of the
\* extraction to the end of the request; requests interleave, and a request
\* can be cancelled, only while it awaits the extraction.  A store call in a
\* try block may raise; the update made by an except-branch is taken to be
\* applied.  Requests are numbered in the order they arrive.

\* Bound: the number of requests, each made once.
NumRequests == 2
Requests == 1..NumRequests

\* str(exc): asyncio.timeout raises TimeoutError without arguments and the
\* assert statement AssertionError without message, their text is empty; the
\* other exceptions carry a text.
Str(e) == IF e \in {"TimeoutError", "AssertionError"} THEN << >> ELSE <<"text of", e>>

\* isinstance(exc, ValueError)
IsValueError(e) == e = "ValueError"

\* isinstance(exc, TundraException) and its status_code
IsTundraException(e) == e = "ValidationError"
TundraStatus(e) == 400

\* classify_error: the HTTP status code for an exception
ClassifyError(e) ==
    IF IsValueError(e) THEN 400
    ELSE IF MessageTokens(e) \cap {"connection", "unreachable", "timeout", "refused"} # {}
    THEN 502
    ELSE IF MessageTokens(e) \cap {"permission", "denied", "unauthorized", "forbidden"} # {}
    THEN 403
    ELSE IF MessageTokens(e) \cap {"not found", "does not exist"} # {}
    THEN 404
    ELSE 500

\* raise_http_exception: the status code of the HTTPException it raises
RaiseHttpException(e) ==
    IF IsTundraException(e) THEN TundraStatus(e) ELSE ClassifyError(e)

\* What an endpoint hands to the framework: nothing yet, a response, an
\* HTTPException made from exception exc, or an exception passing through.
NoResponse == [kind |-> "none", status |-> 0, exc |-> "none"]
Response200 == [kind |-> "response", status |-> 200, exc |-> "none"]
HttpException(code, e) == [kind |-> "http", status |-> code, exc |-> e]
Propagated(e) == [kind |-> "raised", status |-> 0, exc |-> e]

\* ------------------------------------------------------ connector factory
\* The keys of ConnectorFactory.CONNECTOR_TYPES
ConnectorTypes == {"postgresql", "mysql", "sqlite", "mariadb", "redshift"}

\* Mutant of ResolvePostgresConnector: the class is fixed in the table, as it
\* was when the module was imported with the driver present.
ResolvePostgresConnectorStatic(importable) == "PostgresADBC"

\* _resolve_postgres_connector: the import is attempted inside the function.
ResolvePostgresConnector(importable) ==
    IF importable THEN "PostgresADBC" ELSE "PostgresDuckDB"

\* ConnectorFactory.create_connector(connector_type, credentials): the class
\* of the instance it returns, or the exception it raises.
CreateConnectorClass(connector_type, importable) ==
    IF connector_type \notin ConnectorTypes THEN [ok |-> FALSE, class |-> "ValueError"]
    ELSE IF connector_type \in {"postgresql", "redshift"}
    THEN [ok |-> TRUE, class |-> ResolvePostgresConnector(importable)]
    ELSE [ok |-> TRUE,
          class |-> CASE connector_type = "mysql" -> "MySQLDuckDB"
                      [] connector_type = "mariadb" -> "MySQLDuckDB"
                      [] connector_type = "sqlite" -> "SQLiteDuckDB"]

\* Direct calls of the factory in one behaviour.
MaxCalls == 2

\* Types a caller asks for: the registered ones and one that is not.
AskedTypes == ConnectorTypes \cup {"oracle"}

\* A direct call of ConnectorFactory.create_connector.
CreateConnector(t) ==
    /\ Len(created) < MaxCalls
    /\ created' = Append(created,
                         [connector_type |-> t, importable |-> adbcImportable,
                          class |-> CreateConnectorClass(t, adbcImportable).class])
    /\ UNCHANGED <<corevars, hvars, adbcImportable, pvars, kvars, fvars>>

\* The driver package becomes importable or stops being importable.
DriverChange ==
    /\ adbcImportable' = ~adbcImportable
    /\ UNCHANGED <<corevars, hvars, svars>>

\* ------------------------------------------------------- test_connection
NoResult == [kind |-> "none", success |-> FALSE, message |-> << >>, exc |-> "none"]
TestSucceeded ==
    [kind |-> "dict", success |-> TRUE, message |-> <<"Connection successful">>,
     exc |-> "none"]
TestFailed(e) ==
    [kind |-> "dict", success |-> FALSE, message |-> Str(e), exc |-> "none"]
TestRaised(e) == [kind |-> "raised", success |-> FALSE, message |-> << >>, exc |-> e]

\* Mutant of TestResult: only a connection error is turned into a result.
TestResultNarrow(o) ==
    IF o.kind = "ok" THEN TestSucceeded
    ELSE IF o.exc = "ConnectionRefused" THEN TestFailed(o.exc)
    ELSE TestRaised(o.exc)

\* test_connection once run_sync has handed back the probe's outcome: the
\* success dict, or `except Exception` -> the failure dict with str(e).
TestResult(o) ==
    IF o.kind = "ok" THEN TestSucceeded
    ELSE IF IsException(o.exc) THEN TestFailed(o.exc)
    ELSE TestRaised(o.exc)

\* connector.test_connection() starts: the probe function is handed to a
\* worker thread and the coroutine awaits it.
TestConnection(v) ==
    /\ tpc \in {"idle", "done"}
    /\ tpc' = "awaiting"
    /\ tconn' = v
    /\ twpc' = "start"
    /\ tout' = NoOutcome
    /\ tres' = NoResult
    /\ UNCHANGED <<corevars, hvars, adbcImportable, created, kvars, fvars>>

\* The first step of the probe function.  _test_sync of the DuckDB
\* connectors opens DuckDB and calls self._configure_duckdb(conn), a method
\* no class defines: AttributeError, after the finally closed the handle.
\* _test of the ADBC connector imports the driver and connects.
ProbeStart ==
    /\ twpc = "start"
    /\ \/ /\ tconn # "PostgresADBC"
          /\ twpc' = "finished" /\ tout' = Raised("AttributeError")
       \/ /\ tconn = "PostgresADBC" /\ ~adbcImportable
          /\ twpc' = "finished" /\ tout' = Raised("ImportError")
       \/ /\ tconn = "PostgresADBC" /\ adbcImportable
          /\ \/ twpc' = "connected" /\ tout' = tout
             \/ twpc' = "finished" /\ tout' = Raised("ConnectionRefused")
    /\ UNCHANGED <<corevars, hvars, adbcImportable, created, tpc, tconn, tres, kvars, fvars>>

\* The round trip of the ADBC probe: the count query returns or fails.
ProbeQuery ==
    /\ twpc = "connected"
    /\ twpc' = "finished"
    /\ \/ \E n \in RowCounts : tout' = Returned(n)
       \/ \E e \in {"ConnectionRefused", "InvalidInput"} : tout' = Raised(e)
    /\ UNCHANGED <<corevars, hvars, adbcImportable, created, tpc, tconn, tres, kvars, fvars>>

\* run_sync hands the outcome of the finished probe to the coroutine.
ProbeReturn ==
    /\ tpc = "awaiting" /\ twpc = "finished"
    /\ tres' = TestResult(tout)
    /\ tpc' = "done"
    /\ UNCHANGED <<corevars, hvars, adbcImportable, created, tconn, twpc, tout, kvars, fvars>>

\* The task awaiting the probe is cancelled: CancelledError is raised at the
\* await and is no Exception; the probe thread runs on.
ProbeCancel ==
    /\ tpc = "awaiting"
    /\ tres' = TestResult(Raised("CancelledError"))
    /\ tpc' = "done"
    /\ UNCHANGED <<corevars, hvars, adbcImportable, created, tconn, twpc, tout, kvars, fvars>>

\* ----------------------------------------------------------- secret cache
\* SecretManagerService.default_ttl, 3600 seconds = 2 units of the clock.
DefaultTtl == 2

SecretIds == {"c1"}
SecretVersions == {"latest", "1"}
Payloads == {"p1", "p2"}

\* cache_key = f"{secret_id}:{version}"
CacheKey(secret_id, version) == <<secret_id, ":", version>>
CacheKeys == {CacheKey(i, v) : i \in SecretIds, v \in SecretVersions}

\* Mutant of IsFresh: an entry as old as the TTL is still served.
IsFreshInclusive(cached, t) ==
    cached # None /\ (t - Get(cached).fetched_at) <= DefaultTtl

\* cached and (time.time() - cached["fetched_at"]) < self.default_ttl
IsFresh(cached, t) ==
    cached # None /\ (t - Get(cached).fetched_at) < DefaultTtl

NoCall ==
    [key |-> << >>, use_cache |-> FALSE, had |-> FALSE, source |-> "none",
     value |-> None, exc |-> "none"]

\* What access_secret_version can do for a key: hand the stored payload
\* back, or raise (no such secret or version; Secret Manager unreachable).
AccessOutcomes(k) ==
    (IF vault[k] # None THEN {Returned(0)} ELSE {Raised("SecretNotFound")})
        \cup {Raised("ConnectionRefused")}

\* SecretManagerService.get_secret_payload(secret_id, version, use_cache)
GetSecretPayload(secret_id, version, use_cache) ==
    LET k == CacheKey(secret_id, version)
        call == [key |-> k, use_cache |-> use_cache, had |-> cache[k] # None,
                 source |-> "none", value |-> None, exc |-> "none"]
    IN  /\ IF use_cache /\ IsFresh(cache[k], now)
           THEN /\ sres' = [call EXCEPT !.source = "cache",
                                        !.value = Some(Get(cache[k]).value)]
                /\ cache' = cache
           ELSE \E o \in AccessOutcomes(k) :
                   IF o.kind = "ok"
                   THEN /\ cache' = [cache EXCEPT ![k] =
                                        Some([value |-> Get(vault[k]),
                                              fetched_at |-> now])]
                        /\ sres' = [call EXCEPT !.source = "store",
                                                !.value = vault[k]]
                   ELSE /\ cache' = cache
                        /\ sres' = [call EXCEPT !.source = "store", !.exc = o.exc]
        /\ UNCHANGED <<corevars, hvars, adbcImportable, created, pvars, fvars, vault>>

\* self._cache.pop(key, None)
CachePop(c, key) == [k \in DOMAIN c |-> IF k = key THEN None ELSE c[k]]

\* What delete_secret can do for a secret: delete it with all its versions,
\* or raise.
DeleteOutcomes(secret_id) ==
    (IF \E v \in SecretVersions : vault[CacheKey(secret_id, v)] # None
     THEN {Returned(0)} ELSE {Raised("SecretNotFound")})
        \cup {Raised("ConnectionRefused")}

\* SecretManagerService.delete_credentials(secret_id): the secret is deleted
\* in Secret Manager, then the key secret_id is popped from the cache; an
\* exception of delete_secret is re-raised.  The popped key is the id alone,
\* <<secret_id>>, not a key secret_id:version.
DeleteCredentials(secret_id) ==
    LET call == [key |-> <<secret_id>>, use_cache |-> FALSE, had |-> FALSE,
                 source |-> "delete", value |-> None, exc |-> "none"]
    IN  /\ \E o \in DeleteOutcomes(secret_id) :
              IF o.kind = "ok"
              THEN /\ vault' = [k \in CacheKeys |->
                                  IF k[1] = secret_id THEN None ELSE vault[k]]
                   /\ cache' = CachePop(cache, <<secret_id>>)
                   /\ sres' = call
              ELSE /\ vault' = vault
                   /\ cache' = cache
                   /\ sres' = [call EXCEPT !.exc = o.exc]
        /\ UNCHANGED <<corevars, hvars, adbcImportable, created, pvars, fvars>>

\* Someone adds a new payload under the key in Secret Manager, or destroys
\* what is stored there.
RotateSecret(k, p) ==
    /\ vault[k] # p
    /\ vault' = [vault EXCEPT ![k] = p]
    /\ UNCHANGED <<corevars, hvars, adbcImportable, created, pvars, fvars, cache, sres>>

\* ------------------------------------------------------ connection URIs
\* Longest username and longest password, in characters.
MaxCred == 2

\* Characters of a username or password: a letter and the characters that
\* delimit the parts of a URI.
CredChars == {"a", ":", "@", "/", "?", "#", "+", " "}

\* The usernames and passwords of at most n characters.
RECURSIVE CredTexts(_)
CredTexts(n) ==
    IF n = 0 THEN {<< >>}
    ELSE LET shorter == CredTexts(n - 1)
         IN  shorter \cup {Append(t, ch) : t \in shorter, ch \in CredChars}

\* urllib.parse.quote(c, safe="") of one character: unreserved characters
\* stay, every other one becomes % and its two hexadecimal digits.
QuoteChar(c) ==
    CASE c = ":" -> <<"%", "3", "A">>
      [] c = "@" -> <<"%", "4", "0">>
      [] c = "/" -> <<"%", "2", "F">>
      [] c = "?" -> <<"%", "3", "F">>
      [] c = "#" -> <<"%", "2", "3">>
      [] c = "+" -> <<"%", "2", "B">>
      [] c = " " -> <<"%", "2", "0">>
      [] c = "%" -> <<"%", "2", "5">>
      [] OTHER -> <<c>>

\* _encode_userinfo_component(value) = quote(str(value), safe="")
RECURSIVE EncodeUserinfoComponent(_)
EncodeUserinfoComponent(value) ==
    IF value = << >> THEN << >>
    ELSE QuoteChar(Head(value)) \o EncodeUserinfoComponent(Tail(value))

\* f"{scheme}://{username}:{password}@{host}:{port}/{database}": the
\* scheme, host, port and database are one element each.
UriOf(scheme, username, password) ==
    <<scheme, ":", "/", "/">> \o username \o <<":">> \o password
        \o <<"@", "host", ":", "port", "/", "database">>

\* Who builds a connection string from credentials.
UriBuilders ==
    {"PostgresDuckDB", "MySQLDuckDB", "PostgresADBC",
     "SecretManager.postgresql", "SecretManager.mysql"}

\* PostgresDuckDBConnector._build_connection_string and
\* MySQLDuckDBConnector._build_connection_string put the credentials into
\* the f-string as they are; PostgresADBCConnector.__init__ and
\* SecretManagerService.build_connection_string quote them.
BuildConnectionString(builder, username, password) ==
    CASE builder = "PostgresDuckDB" -> UriOf("postgresql", username, password)
      [] builder = "MySQLDuckDB" -> UriOf("mysql", username, password)
      [] builder = "PostgresADBC" ->
           UriOf("postgresql", EncodeUserinfoComponent(username),
                 EncodeUserinfoComponent(password))
      [] builder = "SecretManager.postgresql" ->
           UriOf("postgresql", EncodeUserinfoComponent(username),
                 EncodeUserinfoComponent(password))
      [] builder = "SecretManager.mysql" ->
           UriOf("mysql", EncodeUserinfoComponent(username),
                 EncodeUserinfoComponent(password))

NoUriCall == [builder |-> "none", username |-> << >>, password |-> << >>]

\* A connection string is built from credentials, once in a behaviour.
BuildUri(builder, username, password) ==
    /\ ucall = NoUriCall
    /\ ucall' = [builder |-> builder, username |-> username, password |-> password]
    /\ uri' = BuildConnectionString(builder, username, password)
    /\ UNCHANGED <<corevars, hvars, adbcImportable, created, pvars, kvars,
                   dsample, dformat, ncall, nsampled, xerr, xtrip>>

\* ------------------------------------------------------ schema inference
\* Longest sample passed to _detect_string_format, in values.
MaxSample == 20

\* The kinds of string values, by the patterns they match.  The email and
\* URL patterns exclude each other and the other two; a UUID made of digits
\* only ("both") matches the phone pattern and the UUID pattern.
ValueKinds == {"email", "url", "phone", "uuid", "both", "other"}

\* len(sample)
SampleLen(sample) ==
    sample.email + sample.url + sample.phone + sample.uuid + sample.both
        + sample.other

\* sum(bool(re.match(pattern, v)) for v in sample), for each format's pattern
MatchCount(sample, format) ==
    CASE format = "email" -> sample.email
      [] format = "url" -> sample.url
      [] format = "phone" -> sample.phone + sample.both
      [] format = "uuid" -> sample.uuid + sample.both

\* matches / len(sample) > 0.8, with 0.8 = 4/5 (the quotient of counts up
\* to MaxSample is never within rounding distance of 0.8 unless it is 0.8)
OverThreshold(matches, len) == 5 * matches > 4 * len

\* SchemaInferenceService._detect_string_format
DetectStringFormat(sample) ==
    IF SampleLen(sample) = 0 THEN None
    ELSE IF OverThreshold(MatchCount(sample, "email"), SampleLen(sample))
    THEN Some("email")
    ELSE IF OverThreshold(MatchCount(sample, "url"), SampleLen(sample))
    THEN Some("url")
    ELSE IF OverThreshold(MatchCount(sample, "phone"), SampleLen(sample))
    THEN Some("phone")
    ELSE IF OverThreshold(MatchCount(sample, "uuid"), SampleLen(sample))
    THEN Some("uuid")
    ELSE None

\* _detect_string_format is called with a sample, once in a behaviour.
DetectFormat(sample) ==
    /\ dsample = None
    /\ dsample' = Some(sample)
    /\ dformat' = DetectStringFormat(sample)
    /\ UNCHANGED <<corevars, hvars, adbcImportable, created, pvars, kvars,
                   ucall, uri, ncall, nsampled, xerr, xtrip>>

\* SchemaInferenceService.MAX_SAMPLE_SIZE, 10000 rows = 10 units of a
\* thousand rows.
MaxSampleSize == 10

\* Largest sample_size a caller passes and largest file, in units.
MaxRows == 12

\* CREATE VIEW sample_data AS SELECT * FROM <file> LIMIT {sample_size}: the
\* number of rows of the view.
SampleRows(file_rows, sample_size) ==
    IF file_rows < sample_size THEN file_rows ELSE sample_size

\* SchemaInferenceService.infer_schema(source_url, file_format, sample_size)
\* on a file of file_rows rows, once in a behaviour: sample_size goes to
\* _analyze_file as it is.
InferSchema(sample_size, file_rows) ==
    /\ ncall = None
    /\ ncall' = Some([sample_size |-> sample_size, file_rows |-> file_rows])
    /\ nsampled' = SampleRows(file_rows, sample_size)
    /\ UNCHANGED <<corevars, hvars, adbcImportable, created, pvars, kvars,
                   ucall, uri, dsample, dformat, xerr, xtrip>>

\* ----------------------------------------------- should_trip_breaker
\* Exceptions passed to should_trip_breaker: the class (input validation,
\* connection failure, timeout, any other), the status_code attribute and
\* the keywords its text contains.
ErrorClasses ==
    {"ValueError", "ValidationError", "ConnectionError", "TimeoutError",
     "RuntimeError"}
ErrorStatusCodes ==
    {None, Some(399), Some(400), Some(404), Some(499), Some(500), Some(503)}
ErrorTokens ==
    {"validation", "invalid", "not found", "bad request", "refused", "timeout"}

\* should_trip_breaker(exc) = not is_non_retryable_error(exc)
ShouldTrip(x) == ~IsNonRetryable(x)

\* should_trip_breaker is called with an exception, once in a behaviour.
ClassifyForBreaker(x) ==
    /\ xerr = None
    /\ xerr' = Some(x)
    /\ xtrip' = ShouldTrip(x)
    /\ UNCHANGED <<corevars, hvars, adbcImportable, created, pvars, kvars,
                   ucall, uri, dsample, dformat, ncall, nsampled>>

\* ------------------------------------------------------ bookkeeping store
\* The rows of table sources: a database source and a file source.
StoredSources == {"db", "files"}
ConnectorTypeOf(sid) == IF sid = "db" THEN "postgresql" ELSE "csv"

\* Source ids a request names: the stored ones and one that is not stored.
SourceIds == StoredSources \cup {"nosuch"}

\* One write the store applied, as the tests record them.
Entry(op, n, m, text) == [op |-> op, n |-> n, m |-> m, text |-> text]

\* create_source_version: the inserted row
CreateSourceVersion(vs, r, version) ==
    [vs EXCEPT ![r] = Some([version |-> version, status |-> "pending",
                            error_message |-> None,
                            row_count |-> None, column_count |-> None])]

\* update_source_version: only the arguments that are not None are written.
UpdateSourceVersion(vs, r, status, row_count, column_count, error_message) ==
    [vs EXCEPT ![r] = Some([Get(@) EXCEPT
        !.status = status,
        !.row_count = IF row_count # None THEN row_count ELSE @,
        !.column_count = IF column_count # None THEN column_count ELSE @,
        !.error_message = IF error_message # None THEN error_message ELSE @])]

\* update_source_current_version
UpdateSourceCurrentVersion(src, version) == [src EXCEPT !.current_version = version]

\* update_source_extraction_query
UpdateSourceExtractionQuery(src, q) == [src EXCEPT !.extraction_query = Some(q)]

\* _output_path(org_id, source_id, version): the bucket is that of the
\* source's organization, so the path is a function of the source and the
\* version.
OutputPath(source_id, version) ==
    <<"processed", source_id, "v", version, "data.parquet">>

\* Mutant of NextVersion: the new version takes the current number.
NextVersionSame(current_version) == current_version

\* next_version = source["current_version"] + 1
NextVersion(current_version) == current_version + 1

\* ------------------------------------------------------------- endpoints
\* What extract_to_parquet hands to the endpoint: the metadata dict or an
\* exception.
NotExtracted == [kind |-> "none", exc |-> "none", rows |-> 0, columns |-> 0, query |-> << >>]
Extracted(rows, columns, q) ==
    [kind |-> "ok", exc |-> "none", rows |-> rows, columns |-> columns, query |-> q]
Failed(e) == [kind |-> "exc", exc |-> e, rows |-> 0, columns |-> 0, query |-> << >>]

\* Column counts the source can report.
ColumnCounts == {2}

\* The exceptions extract_to_parquet of class v can raise (final in Spec).
ExtractErrors(v) ==
    {"ValueError", "ConnectionRefused", "InvalidInput", "TimeoutError", "CancelledError"}
    \cup (IF UsesBreaker(v) THEN {"CircuitBreakerOpenError", "AssertionError"} ELSE {})

\* The outcomes of extract_to_parquet of class v for body.query q; without
\* a query the body names table a.
ExtractOutcomes(v, q) ==
    {Extracted(n, c, IF q # None THEN Get(q) ELSE BuildQuery(v, <<"a">>)) :
        n \in {1}, c \in ColumnCounts}
    \cup {Failed(e) : e \in ExtractErrors(v)}

\* The store and the history of request r, as a run of an endpoint changes
\* them.
Snapshot(r) ==
    [sources |-> sources, versions |-> versions, log |-> hlog[r],
     failed |-> storeFailed[r]]

\* A store call raised.
StoreRaised(st) == [st EXCEPT !.failed = TRUE]

\* The end of a run of an endpoint (or its suspension, resp = NoResponse).
Ended(st, resp) == [st |-> st, resp |-> resp]

\* update_source_version(version_id, status="error", error_message=str(e))
MarkError(st, r, e) ==
    [st EXCEPT !.versions = UpdateSourceVersion(@, r, "error", None, None, Some(Str(e))),
               !.log = Append(@, Entry("error", 0, 0, Str(e)))]

\* Mutant of HandleDbError: a ValueError is answered without marking the
\* version, as convert_file's handler does.
HandleDbErrorValueUnmarked(st, r, e) ==
    IF ~IsException(e) THEN Ended(st, Propagated(e))
    ELSE IF IsValueError(e) THEN Ended(st, HttpException(400, e))
    ELSE Ended(IF st.versions[r] # None THEN MarkError(st, r, e) ELSE st,
               HttpException(RaiseHttpException(e), e))

\* The except-branches of convert_database_data for exception e raised in
\* its try block.
\*   except (ValidationError, ValueError): mark error, HTTPException(400)
\*   except Exception: mark error, raise_http_exception(e)
\* CancelledError is no Exception and passes through both.
HandleDbError(st, r, e) ==
    IF ~IsException(e) THEN Ended(st, Propagated(e))
    ELSE Ended(IF st.versions[r] # None THEN MarkError(st, r, e) ELSE st,
               HttpException(IF IsTundraException(e) \/ IsValueError(e)
                             THEN 400 ELSE RaiseHttpException(e), e))

\* The except-branches of convert_file:
\*   except ValueError: HTTPException(404), the version is not touched
\*   except HTTPException: raise
\*   except Exception: mark error, HTTPException(500)
HandleFileError(st, r, e) ==
    IF ~IsException(e) THEN Ended(st, Propagated(e))
    ELSE IF IsValueError(e) THEN Ended(st, HttpException(404, e))
    ELSE Ended(IF st.versions[r] # None THEN MarkError(st, r, e) ELSE st,
               HttpException(500, e))

\* get_source selects id, organization_id, connector_type, source_type and
\* current_version of the row.
SelectSource(row) ==
    [current_version |-> row.current_version, connector_type |-> row.connector_type]

\* get_source(source_id): the exception it raises, "none" if it returns.
GetSourceError(sid, fail) ==
    IF fail = "get_source" THEN "StoreError"
    ELSE IF sid \notin StoredSources THEN "ValueError"
    ELSE "none"

\* create_source_version(source_id, version, "pending") as applied
CreatePending(st, r, version) ==
    [st EXCEPT !.versions = CreateSourceVersion(@, r, version),
               !.log = Append(@, Entry("pending", version, 0, << >>))]

\* Request r arrives: the requests before it have arrived.
Arrives(r) == hpc[r] = "idle" /\ \A p \in Requests : p < r => hpc[p] # "idle"

\* The run of an endpoint takes effect.
Commit(r, res) ==
    /\ sources' = res.st.sources
    /\ versions' = res.st.versions
    /\ hlog' = [hlog EXCEPT ![r] = res.st.log]
    /\ storeFailed' = [storeFailed EXCEPT ![r] = res.st.failed]
    /\ hresp' = [hresp EXCEPT ![r] = res.resp]

\* convert_database_data up to `await connector.extract_to_parquet(...)`:
\* get_source, create the pending version, get_credentials, create_connector.
StartDatabase(r) ==
    /\ Arrives(r)
    /\ \E sid \in SourceIds, q \in {None} \cup {Some(x) : x \in RawQueries},
          fail \in {"none", "get_source", "create_source_version", "get_credentials"} :
         LET st0 == Snapshot(r)
             e1 == GetSourceError(sid, fail)
             src == IF e1 = "none" THEN Some(SelectSource(sources[sid])) ELSE None
             st2 == CreatePending(st0, r, NextVersion(Get(src).current_version))
             cc == CreateConnectorClass(Get(src).connector_type, adbcImportable)
             res == IF e1 # "none"
                    THEN HandleDbError(IF fail = "get_source" THEN StoreRaised(st0) ELSE st0,
                                       r, e1)
                    ELSE IF fail = "create_source_version"
                    THEN HandleDbError(StoreRaised(st0), r, "StoreError")
                    ELSE IF fail = "get_credentials"
                    THEN HandleDbError(st2, r, "SecretNotFound")
                    ELSE IF ~cc.ok
                    THEN HandleDbError(st2, r, cc.class)
                    ELSE Ended(st2, NoResponse)
             suspended == res.resp = NoResponse
         IN  /\ hreq' = [hreq EXCEPT ![r] =
                            [endpoint |-> "database", source_id |-> sid, query |-> q]]
             /\ hsrc' = [hsrc EXCEPT ![r] = src]
             /\ hconn' = [hconn EXCEPT ![r] = IF suspended THEN cc.class ELSE "none"]
             /\ hpc' = [hpc EXCEPT ![r] = IF suspended THEN "extracting" ELSE "ended"]
             /\ Commit(r, res)
    /\ UNCHANGED <<corevars, hout, adbcImportable, svars>>

\* convert_database_data from the end of extract_to_parquet: on a result,
\* store the query, mark the version active, advance current_version and
\* answer; on an exception, the except-branches.
EndExtraction(r) ==
    /\ hpc[r] = "extracting"
    /\ \E o \in ExtractOutcomes(hconn[r], hreq[r].query),
          fail \in {"none", "query", "active", "current"} :
         LET st0 == Snapshot(r)
             sid == hreq[r].source_id
             next_version == NextVersion(Get(hsrc[r]).current_version)
             query_used == IF Truthy(hreq[r].query) THEN Get(hreq[r].query) ELSE o.query
             st1 == IF Len(query_used) > 0
                    THEN [st0 EXCEPT
                            !.sources[sid] = UpdateSourceExtractionQuery(@, query_used),
                            !.log = Append(@, Entry("query", 0, 0, query_used))]
                    ELSE st0
             st2 == [st1 EXCEPT
                       !.versions = UpdateSourceVersion(@, r, "active", Some(o.rows),
                                                        Some(o.columns), None),
                       !.log = Append(@, Entry("active", o.rows, o.columns, << >>))]
             st3 == [st2 EXCEPT
                       !.sources[sid] = UpdateSourceCurrentVersion(@, next_version),
                       !.log = Append(@, Entry("current", next_version, 0, << >>))]
             res == IF o.kind = "exc" THEN HandleDbError(st0, r, o.exc)
                    ELSE IF fail = "query" /\ Len(query_used) > 0
                    THEN HandleDbError(StoreRaised(st0), r, "StoreError")
                    ELSE IF fail = "active"
                    THEN HandleDbError(StoreRaised(st1), r, "StoreError")
                    ELSE IF fail = "current"
                    THEN HandleDbError(StoreRaised(st2), r, "StoreError")
                    ELSE Ended(st3, Response200)
         IN  /\ hout' = [hout EXCEPT ![r] = o]
             /\ Commit(r, res)
    /\ hpc' = [hpc EXCEPT ![r] = "ended"]
    /\ UNCHANGED <<corevars, hreq, hsrc, hconn, adbcImportable, svars>>

\* convert_file: get_source, create the pending version, then
\* FileConverter.convert(source_path=, output_path=, file_format=, options=,
\* version=), whose parameters are source_url, output_url, file_format and
\* options: the call raises TypeError before any await, and the last
\* except-branch handles it.
ConvertFile(r) ==
    /\ Arrives(r)
    /\ \E sid \in SourceIds, fail \in {"none", "get_source", "create_source_version"} :
         LET st0 == Snapshot(r)
             e1 == GetSourceError(sid, fail)
             src == IF e1 = "none" THEN Some(SelectSource(sources[sid])) ELSE None
             st2 == CreatePending(st0, r, NextVersion(Get(src).current_version))
             res == IF e1 # "none"
                    THEN HandleFileError(IF fail = "get_source" THEN StoreRaised(st0) ELSE st0,
                                         r, e1)
                    ELSE IF fail = "create_source_version"
                    THEN HandleFileError(StoreRaised(st0), r, "StoreError")
                    ELSE HandleFileError(st2, r, "TypeError")
         IN  /\ hreq' = [hreq EXCEPT ![r] =
                            [endpoint |-> "file", source_id |-> sid, query |-> None]]
             /\ hsrc' = [hsrc EXCEPT ![r] = src]
             /\ Commit(r, res)
    /\ hpc' = [hpc EXCEPT ![r] = "ended"]
    /\ UNCHANGED <<corevars, hconn, hout, adbcImportable, svars>>

\* ======================================================= specifications
InitCallers ==
    /\ cpc = [c \in Callers |-> "idle"]
    /\ cfn = [c \in Callers |-> "none"]
    /\ cres = [c \in Callers |-> "none"]
    /\ trial = 0
    /\ tripAt = None

InitExtract ==
    /\ pc = "idle"
    /\ conn = "PostgresADBC"
    /\ query = None
    /\ table_name = None
    /\ attempt = 0
    /\ sql = None
    /\ wpc = "none"
    /\ wout = NoOutcome
    /\ lastExc = "none"
    /\ final = NoOutcome
    /\ handle = "none"
    /\ owpc = "none"
    /\ ocause = "none"
    /\ ohandle = "none"
    /\ late = "none"
    /\ admissionChecked = FALSE
    /\ outcomeRecorded = FALSE
    /\ execs = 0
    /\ refusedOnly = TRUE

InitConvert ==
    /\ sources = [sid \in StoredSources |->
                     [current_version |-> 0, extraction_query |-> None,
                      connector_type |-> ConnectorTypeOf(sid)]]
    /\ versions = [r \in Requests |-> None]
    /\ hpc = [r \in Requests |-> "idle"]
    /\ hreq = [r \in Requests |-> [endpoint |-> "none", source_id |-> "none", query |-> None]]
    /\ hsrc = [r \in Requests |-> None]
    /\ hconn = [r \in Requests |-> "none"]
    /\ hout = [r \in Requests |-> NotExtracted]
    /\ hresp = [r \in Requests |-> NoResponse]
    /\ hlog = [r \in Requests |-> << >>]
    /\ storeFailed = [r \in Requests |-> FALSE]
    /\ adbcImportable = TRUE

InitServices ==
    /\ created = << >>
    /\ tpc = "idle"
    /\ tconn = "none"
    /\ twpc = "none"
    /\ tout = NoOutcome
    /\ tres = NoResult
    /\ cache = [k \in CacheKeys |-> None]
    /\ vault = [k \in CacheKeys |-> Some("p1")]
    /\ sres = NoCall

InitFunctions ==
    /\ ucall = NoUriCall
    /\ uri = << >>
    /\ dsample = None
    /\ dformat = None
    /\ ncall = None
    /\ nsampled = 0
    /\ xerr = None
    /\ xtrip = FALSE

Init ==
    /\ breaker = NewBreaker
    /\ now = 0
    /\ InitCallers
    /\ InitExtract
    /\ InitConvert
    /\ InitServices
    /\ InitFunctions

Next ==
    \/ \E v \in Variants, a \in CallArgs(SampleNames) : Call(v, a)
    \/ Retry
    \/ WorkerConnect
    \/ WorkerFetch
    \/ WorkerAttach
    \/ WorkerCount
    \/ WorkerCopy
    \/ Resume
    \/ Timeout
    \/ CancelRequest
    \/ OrphanStep
    \/ OrphanFinish
    \/ Tick

Spec == Init /\ [][Next]_vars

NextBreaker ==
    \/ \E c \in Callers : BeginCall(c)
    \/ \E c \in Callers : FnReturns(c)
    \/ \E c \in Callers : FnRaises(c)
    \/ \E c \in Callers : EndCall(c)
    \/ \E c \in Callers : CancelCall(c)
    \/ Tick

SpecBreaker == Init /\ [][NextBreaker]_vars

\* One call on a new process, with every table name of at most MaxLen
\* characters, run to its end without deadline expiry or cancellation.
NextNames ==
    \/ \E v \in Variants, a \in CallArgs(Texts(MaxLen)) : pc = "idle" /\ Call(v, a)
    \/ Retry
    \/ WorkerConnect
    \/ WorkerFetch
    \/ WorkerAttach
    \/ WorkerCount
    \/ WorkerCopy
    \/ Resume

SpecNames == Init /\ [][NextNames]_vars

\* Requests to the two conversion endpoints, and the driver package coming
\* and going.
NextConvert ==
    \/ \E r \in Requests : StartDatabase(r)
    \/ \E r \in Requests : EndExtraction(r)
    \/ \E r \in Requests : ConvertFile(r)
    \/ DriverChange

SpecConvert == Init /\ [][NextConvert]_vars

\* Direct calls of the factory while the driver comes and goes, and
\* test_connection of a connector, one test at a time.
NextServices ==
    \/ \E t \in AskedTypes : CreateConnector(t)
    \/ DriverChange
    \/ \E v \in Variants : TestConnection(v)
    \/ ProbeStart
    \/ ProbeQuery
    \/ ProbeReturn
    \/ ProbeCancel

SpecServices == Init /\ [][NextServices]_vars

\* Calls of get_secret_payload while the clock advances and the stored
\* secrets change.
NextSecrets ==
    \/ \E i \in SecretIds, v \in SecretVersions, c \in BOOLEAN :
          GetSecretPayload(i, v, c)
    \/ \E i \in SecretIds : DeleteCredentials(i)
    \/ \E k \in CacheKeys, p \in {None} \cup {Some(x) : x \in Payloads} :
          RotateSecret(k, p)
    \/ Tick

SpecSecrets == Init /\ [][NextSecrets]_vars

\* Connection strings built for every short username and password.
NextUri ==
    /\ ucall = NoUriCall
    /\ \E b \in UriBuilders, u \in CredTexts(MaxCred), w \in CredTexts(MaxCred) :
          BuildUri(b, u, w)

SpecUri == Init /\ [][NextUri]_vars

\* _detect_string_format on every sample of at most MaxSample values.
NextFormat ==
    /\ dsample = None
    /\ \E e \in 0..MaxSample : \E u \in 0..(MaxSample - e) :
       \E p \in 0..(MaxSample - e - u) : \E d \in 0..(MaxSample - e - u - p) :
       \E b \in 0..(MaxSample - e - u - p - d) :
       \E o \in 0..(MaxSample - e - u - p - d - b) :
          DetectFormat([email |-> e, url |-> u, phone |-> p, uuid |-> d,
                        both |-> b, other |-> o])

SpecFormat == Init /\ [][NextFormat]_vars

\* infer_schema with every sample_size on every file up to MaxRows.
NextSample ==
    /\ ncall = None
    /\ \E n \in 1..MaxRows, rows \in 0..MaxRows : InferSchema(n, rows)

SpecSample == Init /\ [][NextSample]_vars

\* should_trip_breaker on every exception of the three sets.
NextTrip ==
    /\ xerr = None
    /\ \E c \in ErrorClasses, sc \in ErrorStatusCodes, ts \in SUBSET ErrorTokens :
          ClassifyForBreaker([class |-> c, status_code |-> sc, tokens |-> ts])

SpecTrip == Init /\ [][NextTrip]_vars

TypeOK ==
    /\ breaker.state \in {CLOSED, OPEN, HALF_OPEN}
    /\ breaker.failure_count \in Nat
    /\ cpc \in [Callers -> {"idle", "inflight"}]
    /\ pc \in {"idle", "running", "backoff", "done"}
    /\ attempt \in 0..MaxAttempts

\* ================================================================ claims

\* A table name with a character outside letters, digits, underscore, dot.
HasUnsafeChar(name) == \E i \in 1..Len(name) : name[i] \notin SafeChars

\* C1: during a call that gives a table_name with a character other than
\* letters, digits, underscore and dot (and no query), no query text is
\* built, no worker is started (no engine handle, no query executed), and the
\* call ends with an exception.
C1_UnsafeNameNeverQueried ==
    (query = None /\ Truthy(table_name) /\ HasUnsafeChar(Get(table_name)))
        => /\ sql = None
           /\ wpc = "none"
           /\ (pc = "done" => final.kind = "exc")

\* C2: the recorded failure that brings the consecutive-failure count to the
\* threshold leaves the breaker OPEN, and every call made before
\* RecoveryTimeout has elapsed since that opening is rejected with
\* CircuitBreakerOpenError without invoking the wrapped function.
C2_OpenRejectsDuringWindow ==
    [][ /\ (/\ breaker'.failure_count = breaker.failure_count + 1
            /\ breaker'.failure_count >= FailureThreshold)
           => breaker'.state = OPEN
        /\ \A c \in Callers :
             (/\ BeginCall(c)
              /\ tripAt # None
              /\ now - Get(tripAt) < RecoveryTimeout)
                => (cpc'[c] = "idle" /\ cres'[c] = "CircuitBreakerOpenError")
      ]_vars

\* C3: while the call that moved the breaker OPEN -> HALF_OPEN is in flight,
\* no other caller is admitted to invoke its wrapped function.
C3_SingleTrialCall ==
    [][ \A c \in Callers :
          (trial # 0 /\ trial # c /\ BeginCall(c)) => cpc'[c] = "idle"
      ]_vars

\* C4: when the call admitted as the HALF_OPEN trial ends, a success leaves
\* the breaker CLOSED with failure count zero and a trippable failure leaves
\* it OPEN with opened_at set to the current time.
C4_TrialResolvesBreaker ==
    [][ \A c \in Callers :
          (trial = c /\ EndCall(c))
            => /\ cfn[c] = "ok"
                  => (breaker'.state = CLOSED /\ breaker'.failure_count = 0)
               /\ (cfn[c] # "ok" /\ ShouldTripBreaker(cfn[c]))
                  => (breaker'.state = OPEN /\ breaker'.opened_at = Some(now))
      ]_vars

\* C5: when the wrapped function raised an error that should not trip, the
\* call leaves the failure count at zero and the state CLOSED and re-raises
\* that same error.
C5_NonTrippableCountsAsSuccess ==
    [][ \A c \in Callers :
          (EndCall(c) /\ cfn[c] # "ok" /\ ~ShouldTripBreaker(cfn[c]))
            => /\ breaker'.failure_count = 0
               /\ breaker'.state = CLOSED
               /\ cres'[c] = cfn[c]
      ]_vars

\* C5 witness: a caller got a non-trippable engine error back while another
\* caller's failures had been counted before, and the count is zero again.
C5_Witness ==
    \E c, d \in Callers :
        /\ c # d
        /\ cpc[c] = "idle" /\ cres[c] = "InvalidInput"
        /\ cres[d] = "ConnectionRefused"
        /\ breaker.failure_count = 0 /\ breaker.state = CLOSED

\* C6: at most MaxAttempts attempts are made; a call that returns returns the
\* result of its last attempt's worker; a call that raises an Exception does
\* so after MaxAttempts attempts and raises the exception of its last attempt
\* (the worker's, when the worker ran to its end); no backoff follows attempt
\* MaxAttempts.
C6_RetryBound ==
    /\ attempt <= MaxAttempts
    /\ pc = "backoff" => attempt < MaxAttempts
    /\ (pc = "done" /\ final.kind = "ok")
          => (wpc = "finished" /\ final = wout /\ attempt >= 1)
    /\ (pc = "done" /\ final.kind = "exc" /\ IsException(final.exc))
          => /\ final.exc = lastExc
             /\ wpc = "finished" => final = wout
             /\ attempt = MaxAttempts

\* C6 witness: five refused extractions, then the refusal is raised.
C6_Witness ==
    /\ pc = "done" /\ attempt = MaxAttempts /\ execs = MaxAttempts
    /\ final = Raised("ConnectionRefused")

\* C7: a ValueError raised by the head of extract_to_parquet reaches the
\* caller after one execution of the body: no backoff, no second attempt.
C7_ValidationNotRetried ==
    lastExc = "ValueError" => (pc = "done" /\ attempt = 1)

\* C8: after an attempt ended with the deadline's TimeoutError no further
\* extraction attempt runs.
C8_TimeoutNotRetried ==
    lastExc = "TimeoutError" => pc # "running"

\* C9: a call whose every connection attempt was refused ends after five
\* runs of _extract_sync with that refusal raised and the breaker OPEN.
C9_RefusedSourceFiveRuns ==
    (pc = "done" /\ refusedOnly /\ sql # None)
        => /\ execs = MaxAttempts
           /\ final = Raised("ConnectionRefused")
           /\ breaker.state = OPEN

\* C10: whatever the connector variant, a worker runs only after the
\* breaker's admission check of that attempt, and a finished worker's outcome
\* is recorded in the breaker when the attempt ends.
C10_EveryAttemptUnderBreaker ==
    /\ pc = "running" => admissionChecked
    /\ (pc \in {"backoff", "done"} /\ wpc = "finished") => outcomeRecorded

\* A call that names a table of allowed characters only and gives no query.
AllowedTableCall ==
    /\ pc # "idle"
    /\ query = None
    /\ Truthy(table_name)
    /\ ~HasUnsafeChar(Get(table_name))

\* C11 (as stated): for a table_name of allowed characters and no query,
\* every connector variant builds the text SELECT * FROM <alias>.<table_name>
\* with its own alias.
C11_AliasQualifiedQuery ==
    AllowedTableCall
        => sql = Some(<<"SELECT * FROM ", GetDbAlias(conn), ".">> \o Get(table_name))

\* C11 (amended): the connectors that attach the source to DuckDB build
\* SELECT * FROM <alias>.<table_name>; the ADBC connector, which sends the
\* query to PostgreSQL itself, builds SELECT * FROM <table_name>.
C11_QueryPerVariant ==
    AllowedTableCall
        => sql = Some(IF conn \in {"PostgresDuckDB", "MySQLDuckDB", "SQLiteDuckDB"}
                      THEN <<"SELECT * FROM ", GetDbAlias(conn), ".">> \o Get(table_name)
                      ELSE <<"SELECT * FROM ">> \o Get(table_name))

\* C11 witness: the MySQL connector extracting table a1.
C11_Witness ==
    /\ pc = "running" /\ conn = "MySQLDuckDB" /\ wpc = "attach"
    /\ query = None /\ table_name = Some(<<"a", "1">>)
    /\ sql = Some(<<"SELECT * FROM ", "mysql", ".", "a", "1">>)

\* C12: a call with neither query nor table_name (None or empty) builds no
\* query, starts no worker, opens no engine handle, and ends with ValueError.
C12_MissingArgsRejected ==
    (pc # "idle" /\ query = None /\ ~Truthy(table_name))
        => /\ sql = None
           /\ wpc = "none" /\ execs = 0
           /\ handle = "none"
           /\ pc \in {"backoff", "done"}
           /\ lastExc = "ValueError"
           /\ pc = "done" => final = Raised("ValueError")

\* C12 witness: the call without arguments has ended with ValueError.
C12_Witness ==
    /\ pc = "done" /\ query = None /\ table_name = None
    /\ final = Raised("ValueError") /\ execs = 0 /\ handle = "none"

\* C13: a worker starts without a handle and opens its own; the handle is
\* open exactly while the worker is between connect and the exit of
\* _extract_sync; when _extract_sync has exited, by return or by an exception
\* at any step, the handle it opened is closed, also for an abandoned worker;
\* no handle of the call is open while no worker of it runs.
C13_HandleClosedOnExit ==
    /\ wpc = "start" => handle = "none"
    /\ HandleOpen(wpc) <=> handle = "open"
    /\ wpc = "finished"
          => /\ handle # "open"
             /\ (wout.kind = "ok" \/ conn # "PostgresADBC") => handle = "closed"
    /\ HandleOpen(owpc) <=> ohandle = "open"
    /\ (pc \in {"idle", "backoff", "done"} /\ ~orphaned)
          => (handle # "open" /\ ohandle # "open")

\* C13 witness: the row count raised in a SQLite extraction and the handle
\* is closed.
C13_Witness ==
    /\ conn = "SQLiteDuckDB" /\ wpc = "finished"
    /\ wout = Raised("InvalidInput") /\ handle = "closed"

\* C14: a worker abandoned by the deadline takes no engine step and does not
\* write the output file after the TimeoutError was raised.
C14_DeadlineCancelsWorker == late = "none"

\* C15: a request that created its pending version and has ended, its own
\* store calls having returned, has marked the version active or has marked
\* it "error" with a message; none has left it "pending".
C15_NoVersionLeftPending ==
    \A r \in Requests :
        (hpc[r] = "ended" /\ versions[r] # None /\ ~storeFailed[r])
            => /\ Get(versions[r]).status \in {"active", "error"}
               /\ Get(versions[r]).status = "error"
                     => Get(versions[r]).error_message # None

\* The exceptions of the model that are neither validation errors nor
\* classified by a keyword of their text.
UnclassifiedErrors ==
    {"InvalidInput", "TimeoutError", "CircuitBreakerOpenError", "AssertionError"}

\* C16: when extract_to_parquet raised an Exception in convert_database_data,
\* the request made exactly one update of its version, to "error" with the
\* exception's text as message, answered 400 for a ValueError or
\* ValidationError and 500 for an unclassified error, and did not advance
\* the current version.
C16_ExtractionErrorMarked ==
    \A r \in Requests :
        (hpc[r] = "ended" /\ hout[r].kind = "exc" /\ IsException(hout[r].exc))
            => LET v == Get(versions[r])
                   e == hout[r].exc
               IN  /\ hlog[r] = << Entry("pending", v.version, 0, << >>),
                                   Entry("error", 0, 0, Str(e)) >>
                   /\ v.status = "error"
                   /\ v.error_message = Some(Str(e))
                   /\ v.row_count = None /\ v.column_count = None
                   /\ hresp[r].kind = "http"
                   /\ e \in {"ValueError", "ValidationError"} => hresp[r].status = 400
                   /\ e \in UnclassifiedErrors => hresp[r].status = 500
                   /\ \A i \in 1..Len(hlog[r]) : hlog[r][i].op # "current"

\* C16 witness: an engine error of the extraction answered with 500 and
\* recorded in the version.
C16_Witness ==
    \E r \in Requests :
        /\ hpc[r] = "ended" /\ hout[r] = Failed("InvalidInput")
        /\ hresp[r] = HttpException(500, "InvalidInput")
        /\ Get(versions[r]).status = "error"

\* C17: the pending version exists while the extraction runs; after a
\* successful extraction in a request whose store calls all returned, the
\* store applied, in this order, the pending version numbered previous
\* current version + 1, the extraction query, one update to "active" with
\* the extraction's row and column counts, and current version = that
\* number; the version was never marked "error".
C17_SuccessBookkeeping ==
    \A r \in Requests :
        /\ hpc[r] = "extracting"
              => /\ versions[r] # None /\ Get(versions[r]).status = "pending"
                 /\ hlog[r] = << Entry("pending", Get(hsrc[r]).current_version + 1,
                                       0, << >>) >>
        /\ (hpc[r] = "ended" /\ hout[r].kind = "ok" /\ ~storeFailed[r])
              => LET nv == Get(hsrc[r]).current_version + 1
                     q == IF hreq[r].query # None THEN Get(hreq[r].query)
                          ELSE hout[r].query
                 IN  /\ hlog[r] = << Entry("pending", nv, 0, << >>),
                                     Entry("query", 0, 0, q),
                                     Entry("active", hout[r].rows, hout[r].columns, << >>),
                                     Entry("current", nv, 0, << >>) >>
                     /\ Get(versions[r]) =
                           [version |-> nv, status |-> "active",
                            error_message |-> None,
                            row_count |-> Some(hout[r].rows),
                            column_count |-> Some(hout[r].columns)]
                     /\ hresp[r] = Response200

\* C17 witness: two requests for the database source have both succeeded;
\* the second one read the version the first one had set.
C17_Witness ==
    /\ \A r \in {1, 2} : hpc[r] = "ended" /\ hresp[r] = Response200
    /\ Get(hsrc[1]).current_version = 0
    /\ Get(hsrc[2]).current_version = 1
    /\ sources["db"].current_version = 2

\* C18: every direct create_connector("postgresql" or "redshift") call
\* returned PostgresADBC when the driver was importable at that call and
\* PostgresDuckDB when it was not, whatever earlier calls returned.
C18_ResolvedAtCallTime ==
    \A i \in 1..Len(created) :
        created[i].connector_type \in {"postgresql", "redshift"}
            => created[i].class = IF created[i].importable THEN "PostgresADBC"
                                  ELSE "PostgresDuckDB"

\* C18 witness: a call returned the ADBC connector, the driver went away,
\* and the next call for the same type returned the DuckDB connector.
C18_Witness ==
    /\ Len(created) = 2
    /\ created[1] = [connector_type |-> "postgresql", importable |-> TRUE,
                     class |-> "PostgresADBC"]
    /\ created[2] = [connector_type |-> "postgresql", importable |-> FALSE,
                     class |-> "PostgresDuckDB"]

\* C19: test_connection raises no Exception to its caller; when its probe
\* raised one, the result it returns has success = false and the exception's
\* text as message; a result with success = true is returned only after
\* the probe's round trip completed.
C19_ProbeFailureReported ==
    /\ tres.kind = "raised" => ~IsException(tres.exc)
    /\ (tres.kind = "dict" /\ tres.success)
          => (twpc = "finished" /\ tout.kind = "ok")
    /\ (tpc = "done" /\ tres.kind = "dict" /\ tout.kind = "exc")
          => (~tres.success /\ tres.message = Str(tout.exc))

\* C19 witness: the ADBC probe was refused and the test returned the
\* failure result.
C19_Witness ==
    /\ tpc = "done" /\ tconn = "PostgresADBC"
    /\ tout = Raised("ConnectionRefused")
    /\ tres = TestFailed("ConnectionRefused")

\* C20: a get_secret_payload call with caching answers from the cache
\* exactly when the key has an entry younger than the TTL, and then leaves
\* the cache alone; otherwise it asks Secret Manager and either stores the
\* payload under the key with the present time and returns it, or raises
\* and leaves the cache unchanged.
C20_CacheServesOnlyFresh ==
    [][\A i \in SecretIds, v \in SecretVersions :
          GetSecretPayload(i, v, TRUE) =>
             LET k == CacheKey(i, v)
                 fresh == cache[k] # None
                             /\ now - Get(cache[k]).fetched_at < DefaultTtl
             IN  /\ fresh => /\ sres'.source = "cache"
                             /\ sres'.value = Some(Get(cache[k]).value)
                             /\ cache' = cache
                 /\ ~fresh => /\ sres'.source = "store"
                              /\ \/ /\ sres'.exc = "none"
                                    /\ vault[k] # None
                                    /\ sres'.value = vault[k]
                                    /\ cache' = [cache EXCEPT ![k] =
                                          Some([value |-> Get(vault[k]),
                                                fetched_at |-> now])]
                                 \/ /\ sres'.exc # "none"
                                    /\ sres'.value = None
                                    /\ cache' = cache]_vars

\* C20 witness: a call with caching found an entry that had reached the
\* TTL, fetched the rotated payload and stored it with the present time.
C20_Witness ==
    /\ sres.use_cache /\ sres.had /\ sres.source = "store" /\ sres.exc = "none"
    /\ sres.value = Some("p2")
    /\ cache[sres.key] = Some([value |-> "p2", fetched_at |-> now])

\* C24: in every step of concurrent calls through one breaker the state
\* stays or moves along CLOSED -> OPEN, OPEN -> HALF_OPEN (the recovery
\* timeout having elapsed), HALF_OPEN -> CLOSED or HALF_OPEN -> OPEN.
C24_StateEdges ==
    [][ breaker'.state # breaker.state
          => /\ <<breaker.state, breaker'.state>> \in
                   {<<CLOSED, OPEN>>, <<OPEN, HALF_OPEN>>,
                    <<HALF_OPEN, CLOSED>>, <<HALF_OPEN, OPEN>>}
             /\ breaker.state = OPEN
                   => now - Get(breaker.opened_at) >= RecoveryTimeout
      ]_vars

\* C27: under concurrent calls an OPEN breaker always has opened_at set,
\* and no call ends with the AssertionError of _can_attempt_call.
C27_OpenHasOpenedAt ==
    /\ breaker.state = OPEN => breaker.opened_at # None
    /\ \A c \in Callers : cres[c] # "AssertionError"

\* C27 witness: the breaker is OPEN, one caller's admission check ran
\* against it and rejected the call, and a call admitted before the
\* opening is still in flight.
C27_Witness ==
    \E c, d \in Callers :
        /\ c # d
        /\ breaker.state = OPEN /\ breaker.opened_at # None
        /\ cpc[c] = "idle" /\ cres[c] = "CircuitBreakerOpenError"
        /\ cpc[d] = "inflight"

\* C28: a call the breaker admitted records one outcome when it ends, a
\* success or a failure, also when the awaited operation is ended by a
\* timeout or a cancellation; when the call that moved the breaker to
\* HALF_OPEN ends, the breaker is not HALF_OPEN any more.
C28_AdmittedCallRecords ==
    [][ \A c \in Callers :
          (cpc[c] = "inflight" /\ cpc'[c] = "idle")
            => /\ \/ breaker' = RecordSuccess(breaker)
                  \/ breaker' = RecordFailure(breaker, now)
               /\ trial = c => breaker'.state # HALF_OPEN
      ]_vars

\* The index of the first element of t that is in set cs, 0 if none is.
FirstOf(t, cs) ==
    IF \E i \in 1..Len(t) : t[i] \in cs
    THEN CHOOSE i \in 1..Len(t) : t[i] \in cs /\ \A j \in 1..(i - 1) : t[j] \notin cs
    ELSE 0

\* The index of the last element of t that is in set cs, 0 if none is.
LastOf(t, cs) ==
    IF \E i \in 1..Len(t) : t[i] \in cs
    THEN CHOOSE i \in 1..Len(t) : t[i] \in cs /\ \A j \in (i + 1)..Len(t) : t[j] \notin cs
    ELSE 0

\* urllib.parse.urlsplit(u).username and .password of a URI that starts
\* with scheme://: the netloc ends before the first "/", "?" or "#", the
\* userinfo is what precedes its last "@", and the first ":" of the
\* userinfo separates username and password.
UrlSplitUserinfo(u) ==
    LET rest == SubSeq(u, 5, Len(u))
        e == FirstOf(rest, {"/", "?", "#"})
        netloc == IF e = 0 THEN rest ELSE SubSeq(rest, 1, e - 1)
        at == LastOf(netloc, {"@"})
        userinfo == SubSeq(netloc, 1, at - 1)
        colon == FirstOf(userinfo, {":"})
    IN  IF at = 0 THEN [username |-> None, password |-> None]
        ELSE IF colon = 0 THEN [username |-> Some(userinfo), password |-> None]
        ELSE [username |-> Some(SubSeq(userinfo, 1, colon - 1)),
              password |-> Some(SubSeq(userinfo, colon + 1, Len(userinfo)))]

\* The character a percent escape stands for.
UnquoteChar(h1, h2) ==
    CASE <<h1, h2>> = <<"3", "A">> -> ":"
      [] <<h1, h2>> = <<"4", "0">> -> "@"
      [] <<h1, h2>> = <<"2", "F">> -> "/"
      [] <<h1, h2>> = <<"3", "F">> -> "?"
      [] <<h1, h2>> = <<"2", "3">> -> "#"
      [] <<h1, h2>> = <<"2", "B">> -> "+"
      [] <<h1, h2>> = <<"2", "0">> -> " "
      [] <<h1, h2>> = <<"2", "5">> -> "%"

RECURSIVE Unquote(_)
\* urllib.parse.unquote: every % followed by two hexadecimal digits is
\* replaced by the character it stands for.
Unquote(t) ==
    IF t = << >> THEN << >>
    ELSE IF Head(t) = "%" /\ Len(t) >= 3
    THEN <<UnquoteChar(t[2], t[3])>> \o Unquote(SubSeq(t, 4, Len(t)))
    ELSE <<Head(t)>> \o Unquote(Tail(t))

\* C21: for every username and password, parsing the connection string
\* that PostgresDuckDBConnector, MySQLDuckDBConnector or
\* SecretManagerService.build_connection_string built and decoding its
\* userinfo yields exactly that username and that password.
C21_UserinfoRoundTrip ==
    ucall.builder \in {"PostgresDuckDB", "MySQLDuckDB",
                       "SecretManager.postgresql", "SecretManager.mysql"}
        => LET parsed == UrlSplitUserinfo(uri)
           IN  /\ parsed.username # None /\ parsed.password # None
               /\ Unquote(Get(parsed.username)) = ucall.username
               /\ Unquote(Get(parsed.password)) = ucall.password

\* At least 80% of a sample of len values match: matches / len >= 4/5.
AtLeast80(matches, len) == 5 * matches >= 4 * len

\* C22: _detect_string_format returns email, url, phone or uuid exactly when
\* at least 80% of the sample matches that format's pattern, the formats
\* being tried in this order and the first one winning; a sample at
\* exactly 80% is classified.
C22_ClassifiedAtEightyPercent ==
    dsample # None
        => LET sample == Get(dsample)
               n == SampleLen(sample)
           IN  dformat =
                   IF n = 0 THEN None
                   ELSE IF AtLeast80(MatchCount(sample, "email"), n) THEN Some("email")
                   ELSE IF AtLeast80(MatchCount(sample, "url"), n) THEN Some("url")
                   ELSE IF AtLeast80(MatchCount(sample, "phone"), n) THEN Some("phone")
                   ELSE IF AtLeast80(MatchCount(sample, "uuid"), n) THEN Some("uuid")
                   ELSE None

\* C23: whatever sample_size is passed to infer_schema, the number of rows
\* it samples is at most MAX_SAMPLE_SIZE.
C23_SampleCapped ==
    ncall # None => nsampled <= MaxSampleSize

\* C25: should_trip_breaker is true for every connection failure, every
\* timeout and every error with a 5xx status code (it is false only for
\* input validation errors, not-found errors and errors with a 4xx status
\* code).
C25_DependencyErrorsTrip ==
    xerr # None
        => LET x == Get(xerr)
           IN  (\/ x.class \in {"ConnectionError", "TimeoutError"}
                   /\ x.status_code = None
                \/ x.class = "RuntimeError"
                   /\ x.status_code \in {Some(500), Some(503)})
                 => xtrip

\* C26: after delete_credentials(secret_id) succeeded, and until the next
\* call, the cache holds no entry for any version of that secret.
C26_DeleteEvictsCache ==
    (sres.source = "delete" /\ sres.exc = "none")
        => \A v \in SecretVersions : cache[CacheKey(sres.key[1], v)] = None

\* The writes of a version's status after its creation, in the order the
\* store applied them.
StatusWrites(log) ==
    SelectSeq(log, LAMBDA e : e.op \in {"active", "error"})

\* C29: within one request the status of its version is written at most
\* once after the pending record was created (pending -> active or
\* pending -> error), so a version marked active is never marked error.
C29_StatusWrittenOnce ==
    \A r \in Requests : Len(StatusWrites(hlog[r])) <= 1

\* Requests r1 and r2 are in flight for the same source: both created their
\* pending record and neither has ended.
Concurrent(r1, r2) ==
    /\ r1 # r2
    /\ hpc[r1] = "extracting" /\ hpc[r2] = "extracting"
    /\ hreq[r1].source_id = hreq[r2].source_id

\* C30: two requests in flight for the same source hold different version
\* numbers and write to different output paths.
C30_DistinctVersions ==
    \A r1, r2 \in Requests :
        Concurrent(r1, r2)
            => /\ Get(versions[r1]).version # Get(versions[r2]).version
               /\ OutputPath(hreq[r1].source_id, Get(versions[r1]).version)
                    # OutputPath(hreq[r2].source_id, Get(versions[r2]).version)

====
